---- MODULE Spec2Model ----
(***************************************************************************)
(* Study subsystem of exammentor: the card store (study_cards), the        *)
(* Leitner scheduling state (study_srs) and the review log                 *)
(* (study_reviews) of src/Python2/db.py, as a state machine over the rows  *)
(* of the three tables.  Every db.py function opens its own connection and *)
(* commits once, so one call is one atomic step.                           *)
(*                                                                         *)
(* Text is a sequence of characters, so that str.strip() is computed and   *)
(* not assumed.  Dates are day numbers, date('now') is the variable today. *)
(*                                                                         *)
(* The preview/commit workflow of src/Python2/main.py adds the process-wide *)
(* STUDY_PREVIEW_CACHE, the clock time.time() in seconds (now), and the    *)
(* commit requests in flight (req): a commit handler pops the batch and    *)
(* then runs one create_study_card transaction per picked item, so it is   *)
(* one step for the pop and one step per item.                             *)
(*                                                                         *)
(* Calls that overlap on the server's worker threads are not atomic: a     *)
(* review_card or create_study_card call reads with a SELECT and writes in *)
(* a later transaction.  txn holds the calls between their read and their  *)
(* write, for the specifications in which calls overlap.                   *)
(***************************************************************************)
EXTENDS Integers, Sequences, FiniteSets, TLC

VARIABLES study_cards, study_srs, study_reviews, next_card_id, next_review_id,
          today, ret, call,
          STUDY_PREVIEW_CACHE, now, next_token, req, accepted, txn

vars == <<study_cards, study_srs, study_reviews, next_card_id, next_review_id,
          today, ret, call,
          STUDY_PREVIEW_CACHE, now, next_token, req, accepted, txn>>

\* ------------------------------------------------------------------ bounds
\* AUTOINCREMENT ids are never reused: a run inserts at most MaxCards cards.
MaxCards == 2
\* A run inserts at most MaxReviews review rows.
MaxReviews == 1
\* The calendar runs over the days 0..MaxDay.
MaxDay == 1
\* Longest run of correct reviews behind a card of a database found at start-up.
MaxStreak == 5
\* pickDistractors is asked for 0..MaxK answers.
MaxK == 3
\* A run issues at most MaxTokens preview tokens.
MaxTokens == 2
\* The clock runs from 0 to MaxLate seconds past the time-to-live.
MaxLate == 1

\* ------------------------------------------------------------- value space
\* Python None / SQL NULL (ids start at 1, days at 0).
NULL == 0 - 1

SP == " "

\* Raw question and answer texts a caller may pass.
QuestionInputs == { <<SP>>, <<SP, "X", SP>> }
AnswerInputs == { <<>>, <<"A", SP>> }
\* document_id arguments: None or the id of a document.
DocInputs == { NULL, 1 }
Sources == { "session", "quiz" }
\* The card ids a call can name (some of them of no card).
CardIds == 1..MaxCards

\* ----------------------------------------------------------------- helpers
\* str.strip(): drop leading and trailing whitespace.
RECURSIVE lstrip(_)
lstrip(s) == IF s # <<>> /\ Head(s) = SP THEN lstrip(Tail(s)) ELSE s

RECURSIVE rstrip(_)
rstrip(s) == IF s # <<>> /\ s[Len(s)] = SP THEN rstrip(SubSeq(s, 1, Len(s) - 1)) ELSE s

strip(s) == rstrip(lstrip(s))

\* Mutant: box 5 comes back after a week, like box 4.
LEITNER_INTERVALS_DAYS_week(box) ==
    CASE box = 1 -> 0
      [] box = 2 -> 1
      [] box = 3 -> 3
      [] box = 4 -> 7
      [] box = 5 -> 7
      [] OTHER -> 0

\* _LEITNER_INTERVALS_DAYS.get(new_box, 0)
LEITNER_INTERVALS_DAYS(box) ==
    CASE box = 1 -> 0
      [] box = 2 -> 1
      [] box = 3 -> 3
      [] box = 4 -> 7
      [] box = 5 -> 14
      [] OTHER -> 0

Min(a, b) == IF a <= b THEN a ELSE b

\* The row of a table with the given key, as a set (empty when absent).
CardRows(card_id) == { c \in study_cards : c.id = card_id }
SrsRows(card_id) == { s \in study_srs : s.card_id = card_id }
ReviewRows(card_id) == { r \in study_reviews : r.card_id = card_id }

\* The dedup key of a card or of a preview item.
Key(c) == <<c.document_id, c.question, c.answer>>

\* The tables and their AUTOINCREMENT counters.
db == <<study_cards, study_srs, study_reviews, next_card_id, next_review_id>>

\* The preview cache, the clock, the next uuid4 token, the commit requests in
\* flight, and the tokens a commit has been accepted for (history).
preview == <<STUDY_PREVIEW_CACHE, now, next_token, req, accepted>>

\* The worker threads that run db.py calls side by side.
Workers == 1..2

\* A worker that runs no call.  A call in flight holds its arguments and what
\* its SELECT read; a finished call leaves what it returned or raised.
IdleCall == [pc |-> "idle", op |-> "none", args |-> <<>>, read |-> {}, out |-> <<>>]

\* ret: what the last call returned or raised; call: its arguments.  Both are
\* kept only by the specifications that compare one call with the next.
NoCall == [op |-> "none", card_id |-> NULL, created_new |-> FALSE, raised |-> "none"]
NoArgs == <<>>
Unlogged == ret' = NoCall /\ call' = NoArgs

\* ---------------------------------------------------------------- db.py
\* Mutant: `document_id = ?` also for None, which in SQL matches no row.
find_existing_card_id_sql_null(document_id, question, answer) ==
    { c.id : c \in { x \in study_cards :
                        /\ document_id # NULL
                        /\ x.document_id = document_id
                        /\ x.question = question
                        /\ x.answer = answer } }

\* Mutant: the lookup ignores the document.
find_existing_card_id_any_doc(document_id, question, answer) ==
    { c.id : c \in { x \in study_cards :
                        /\ x.question = question
                        /\ x.answer = answer } }

\* The ids the SELECT of _find_existing_card_id can return: LIMIT 1 without
\* ORDER BY yields any one matching row.  NULL document ids match only NULL.
find_existing_card_id(document_id, question, answer) ==
    { c.id : c \in { x \in study_cards :
                        /\ x.document_id = document_id
                        /\ x.question = question
                        /\ x.answer = answer } }

\* Mutant: a new card is due tomorrow.
fresh_srs_row_tomorrow(card_id) ==
    [card_id |-> card_id, box |-> 1, due_at |-> today + 1,
     last_review_at |-> NULL, correct_streak |-> 0]

\* INSERT OR REPLACE INTO study_srs(card_id, 1, date('now'), NULL, 0)
fresh_srs_row(card_id) ==
    [card_id |-> card_id, box |-> 1, due_at |-> today,
     last_review_at |-> NULL, correct_streak |-> 0]

\* Mutant: only the question is checked.
empty_field_question_only(q, a) == q = <<>>

\* `if not q or not a`, on the trimmed texts.
empty_field(q, a) == q = <<>> \/ a = <<>>

\* Mutant: no lookup of an existing card before the INSERT.
create_study_card_no_lookup(question, answer, document_id, note_id, out) ==
    LET q == strip(question)
        a == strip(answer)
    IN  IF empty_field(q, a)
        THEN /\ out = <<NULL, FALSE>>
             /\ UNCHANGED db
        ELSE /\ study_cards' = study_cards \cup
                    { [id |-> next_card_id, document_id |-> document_id,
                       note_id |-> note_id, question |-> q, answer |-> a] }
             /\ study_srs' = { s \in study_srs : s.card_id # next_card_id }
                                \cup { fresh_srs_row(next_card_id) }
             /\ next_card_id' = next_card_id + 1
             /\ out = <<next_card_id, TRUE>>
             /\ UNCHANGED <<study_reviews, next_review_id>>

\* create_study_card returns out = <<card_id, created_new>>.
create_study_card(question, answer, document_id, note_id, out) ==
    LET q == strip(question)
        a == strip(answer)
        existing == find_existing_card_id(document_id, q, a)
    IN  IF empty_field(q, a)
        THEN /\ out = <<NULL, FALSE>>
             /\ UNCHANGED db
        ELSE IF existing # {}
        THEN /\ out[1] \in existing
             /\ out[2] = FALSE
             /\ UNCHANGED db
        ELSE /\ study_cards' = study_cards \cup
                    { [id |-> next_card_id, document_id |-> document_id,
                       note_id |-> note_id, question |-> q, answer |-> a] }
             /\ study_srs' = { s \in study_srs : s.card_id # next_card_id }
                                \cup { fresh_srs_row(next_card_id) }
             /\ next_card_id' = next_card_id + 1
             /\ out = <<next_card_id, TRUE>>
             /\ UNCHANGED <<study_reviews, next_review_id>>

\* Mutant: the update re-creates the SRS row of the card, as a new insert would.
update_study_card_resets_srs(card_id, question, answer, document_id) ==
    /\ study_cards' =
         { IF c.id = card_id
           THEN [c EXCEPT !.question = strip(question), !.answer = strip(answer),
                          !.document_id = document_id]
           ELSE c : c \in study_cards }
    /\ study_srs' =
         { IF s.card_id = card_id THEN fresh_srs_row(card_id) ELSE s : s \in study_srs }
    /\ UNCHANGED <<study_reviews, next_card_id, next_review_id>>

\* UPDATE study_cards SET question, answer, document_id WHERE id = card_id
update_study_card(card_id, question, answer, document_id) ==
    /\ study_cards' =
         { IF c.id = card_id
           THEN [c EXCEPT !.question = strip(question), !.answer = strip(answer),
                          !.document_id = document_id]
           ELSE c : c \in study_cards }
    /\ UNCHANGED <<study_srs, study_reviews, next_card_id, next_review_id>>

\* Mutant: foreign_keys left OFF, the delete does not cascade.
delete_study_card_no_cascade(card_id) ==
    /\ study_cards' = { c \in study_cards : c.id # card_id }
    /\ UNCHANGED <<study_srs, study_reviews, next_card_id, next_review_id>>

\* DELETE FROM study_cards; foreign_keys = ON cascades to study_srs and study_reviews.
delete_study_card(card_id) ==
    /\ study_cards' = { c \in study_cards : c.id # card_id }
    /\ study_srs' = { s \in study_srs : s.card_id # card_id }
    /\ study_reviews' = { r \in study_reviews : r.card_id # card_id }
    /\ UNCHANGED <<next_card_id, next_review_id>>

\* Mutant: no cap at box 5.
leitner_new_box_uncapped(box, correct) == IF correct THEN box + 1 ELSE 1
\* Mutant: an incorrect review moves the card down one box.
leitner_new_box_demote(box, correct) ==
    IF correct THEN Min(5, box + 1) ELSE IF box > 1 THEN box - 1 ELSE 1

\* The Leitner transition of review_card.
leitner_new_box(box, correct) == IF correct THEN Min(5, box + 1) ELSE 1
\* Mutant: an incorrect review keeps the streak.
leitner_new_streak_kept(streak, correct) == IF correct THEN streak + 1 ELSE streak
\* new_streak of review_card.
leitner_new_streak(streak, correct) == IF correct THEN streak + 1 ELSE 0

\* Mutant: no "ensure srs row exists" branch, the UPDATE finds no row.
review_card_no_ensure(card_id, correct, source, raised) ==
    LET row == { s \in study_srs : s.card_id = card_id }
    IN  IF row = {} /\ { c \in study_cards : c.id = card_id } = {}
        THEN /\ raised = "IntegrityError"
             /\ UNCHANGED db
        ELSE /\ raised = "none"
             /\ study_srs' =
                  { IF s.card_id = card_id
                    THEN [s EXCEPT
                            !.box = IF correct THEN Min(5, s.box + 1) ELSE 1,
                            !.due_at = today + LEITNER_INTERVALS_DAYS(
                                          IF correct THEN Min(5, s.box + 1) ELSE 1),
                            !.last_review_at = today,
                            !.correct_streak = IF correct THEN s.correct_streak + 1 ELSE 0]
                    ELSE s : s \in study_srs }
             /\ study_reviews' = study_reviews \cup
                    { [id |-> next_review_id, card_id |-> card_id,
                       correct |-> IF correct THEN 1 ELSE 0, source |-> source] }
             /\ next_review_id' = next_review_id + 1
             /\ UNCHANGED <<study_cards, next_card_id>>

\* Mutant: the log keeps one row per card, a new review replaces the old ones.
review_card_one_row_per_card(card_id, correct, source, raised) ==
    LET row == { s \in study_srs : s.card_id = card_id }
        box == IF row = {} THEN 1 ELSE (CHOOSE s \in row : TRUE).box
        streak == IF row = {} THEN 0 ELSE (CHOOSE s \in row : TRUE).correct_streak
        new_box == IF correct THEN Min(5, box + 1) ELSE 1
    IN  IF row = {} /\ { c \in study_cards : c.id = card_id } = {}
        THEN /\ raised = "IntegrityError"
             /\ UNCHANGED db
        ELSE /\ raised = "none"
             /\ study_srs' = { s \in study_srs : s.card_id # card_id } \cup
                    { [card_id |-> card_id, box |-> new_box,
                       due_at |-> today + LEITNER_INTERVALS_DAYS(new_box),
                       last_review_at |-> today,
                       correct_streak |-> IF correct THEN streak + 1 ELSE 0] }
             /\ study_reviews' = { r \in study_reviews : r.card_id # card_id } \cup
                    { [id |-> next_review_id, card_id |-> card_id,
                       correct |-> IF correct THEN 1 ELSE 0, source |-> source] }
             /\ next_review_id' = next_review_id + 1
             /\ UNCHANGED <<study_cards, next_card_id>>

\* Mutant: foreign_keys left OFF, a review of a missing card is stored.
review_card_no_foreign_key(card_id, correct, source, raised) ==
    LET row == SrsRows(card_id)
        box == IF row = {} THEN 1 ELSE (CHOOSE s \in row : TRUE).box
        streak == IF row = {} THEN 0 ELSE (CHOOSE s \in row : TRUE).correct_streak
        new_box == leitner_new_box(box, correct)
    IN  /\ raised = "none"
        /\ study_srs' = { s \in study_srs : s.card_id # card_id } \cup
               { [card_id |-> card_id, box |-> new_box,
                  due_at |-> today + LEITNER_INTERVALS_DAYS(new_box),
                  last_review_at |-> today,
                  correct_streak |-> leitner_new_streak(streak, correct)] }
        /\ study_reviews' = study_reviews \cup
               { [id |-> next_review_id, card_id |-> card_id,
                  correct |-> IF correct THEN 1 ELSE 0, source |-> source] }
        /\ next_review_id' = next_review_id + 1
        /\ UNCHANGED <<study_cards, next_card_id>>

\* review_card returns None (raised = "none") or raises.
review_card(card_id, correct, source, raised) ==
    LET row == SrsRows(card_id)
        box == IF row = {} THEN 1 ELSE (CHOOSE s \in row : TRUE).box
        streak == IF row = {} THEN 0 ELSE (CHOOSE s \in row : TRUE).correct_streak
        new_box == leitner_new_box(box, correct)
        new_streak == leitner_new_streak(streak, correct)
        interval == LEITNER_INTERVALS_DAYS(new_box)
    IN  IF row = {} /\ CardRows(card_id) = {}
        THEN \* the INSERT into study_srs violates the foreign key: the call raises
             \* and its transaction is never committed
             /\ raised = "IntegrityError"
             /\ UNCHANGED db
        ELSE /\ raised = "none"
             /\ study_srs' = { s \in study_srs : s.card_id # card_id } \cup
                    { [card_id |-> card_id, box |-> new_box,
                       due_at |-> today + interval,
                       last_review_at |-> today, correct_streak |-> new_streak] }
             /\ study_reviews' = study_reviews \cup
                    { [id |-> next_review_id, card_id |-> card_id,
                       correct |-> IF correct THEN 1 ELSE 0, source |-> source] }
             /\ next_review_id' = next_review_id + 1
             /\ UNCHANGED <<study_cards, next_card_id>>

\* review_card as it runs next to other calls.  First the SELECT of the
\* card's box and correct_streak: read is {} when there is no row.
review_card_select(w, card_id, correct, source) ==
    /\ txn' = [txn EXCEPT ![w] =
                 [pc |-> "read", op |-> "review", args |-> <<card_id, correct, source>>,
                  read |-> { <<s.box, s.correct_streak>> : s \in SrsRows(card_id) },
                  out |-> <<>>]]
    /\ UNCHANGED db

\* Mutant: the UPDATE computes the new box and streak from the stored row
\* (SET box = min(5, box + 1)), not from what the SELECT read.
review_card_write_in_place(w, raised) ==
    LET card_id == txn[w].args[1]
        correct == txn[w].args[2]
    IN  /\ review_card(card_id, correct, txn[w].args[3], raised)
        /\ txn' = [txn EXCEPT ![w] = [@ EXCEPT !.pc = "done", !.out = <<raised>>]]

\* Then the write transaction, computed from what the SELECT read: the INSERT
\* OR REPLACE when it read no row, the UPDATE, the INSERT into study_reviews,
\* the commit.  A foreign key that finds no card raises and nothing is
\* committed.
review_card_write(w, raised) ==
    LET card_id == txn[w].args[1]
        correct == txn[w].args[2]
        found == txn[w].read # {}
        box == IF found THEN (CHOOSE x \in txn[w].read : TRUE)[1] ELSE 1
        streak == IF found THEN (CHOOSE x \in txn[w].read : TRUE)[2] ELSE 0
        new_box == leitner_new_box(box, correct)
        new_streak == leitner_new_streak(streak, correct)
        interval == LEITNER_INTERVALS_DAYS(new_box)
        ensured == IF found THEN study_srs
                   ELSE { s \in study_srs : s.card_id # card_id } \cup
                           { fresh_srs_row(card_id) }
    IN  /\ IF CardRows(card_id) = {}
           THEN /\ raised = "IntegrityError"
                /\ UNCHANGED db
           ELSE /\ raised = "none"
                /\ study_srs' =
                     { IF s.card_id = card_id
                       THEN [s EXCEPT !.box = new_box, !.due_at = today + interval,
                                      !.last_review_at = today,
                                      !.correct_streak = new_streak]
                       ELSE s : s \in ensured }
                /\ study_reviews' = study_reviews \cup
                       { [id |-> next_review_id, card_id |-> card_id,
                          correct |-> IF correct THEN 1 ELSE 0,
                          source |-> txn[w].args[3]] }
                /\ next_review_id' = next_review_id + 1
                /\ UNCHANGED <<study_cards, next_card_id>>
        /\ txn' = [txn EXCEPT ![w] = [@ EXCEPT !.pc = "done", !.out = <<raised>>]]

\* create_study_card as it runs next to other calls.  First the empty-field
\* check and _find_existing_card_id, on a connection of its own: the call
\* returns here, or goes on to insert (read = {}).
create_study_card_find(w, question, answer, document_id, note_id) ==
    LET q == strip(question)
        a == strip(answer)
        existing == find_existing_card_id(document_id, q, a)
        call_ == [pc |-> "read", op |-> "create", args |-> <<q, a, document_id, note_id>>,
                  read |-> {}, out |-> <<>>]
    IN  /\ \E out \in { <<NULL, FALSE>>, <<>> } \cup { <<id, FALSE>> : id \in existing } :
              /\ out = <<NULL, FALSE>> <=> empty_field(q, a)
              /\ (out = <<>>) <=> (~empty_field(q, a) /\ existing = {})
              /\ txn' = [txn EXCEPT ![w] =
                           IF out = <<>> THEN call_
                           ELSE [call_ EXCEPT !.pc = "done", !.read = existing, !.out = out]]
        /\ UNCHANGED db

\* Then the INSERT of the card and of its SRS row, in one transaction.
create_study_card_insert(w) ==
    /\ study_cards' = study_cards \cup
           { [id |-> next_card_id, document_id |-> txn[w].args[3],
              note_id |-> txn[w].args[4], question |-> txn[w].args[1],
              answer |-> txn[w].args[2]] }
    /\ study_srs' = { s \in study_srs : s.card_id # next_card_id }
                       \cup { fresh_srs_row(next_card_id) }
    /\ next_card_id' = next_card_id + 1
    /\ UNCHANGED <<study_reviews, next_review_id>>
    /\ txn' = [txn EXCEPT ![w] = [@ EXCEPT !.pc = "done", !.out = <<next_card_id, TRUE>>]]

\* Mutant: ties go to the newest card, as in the listing of the cards.
get_next_due_card_newest_first(document_id) ==
    LET joined == { <<s, c>> \in study_srs \X study_cards :
                       /\ c.id = s.card_id
                       /\ document_id # NULL => c.document_id = document_id
                       /\ s.due_at <= today }
        by_due == { r \in joined : \A x \in joined : r[1].due_at <= x[1].due_at }
        by_box == { r \in by_due : \A x \in by_due : r[1].box <= x[1].box }
        by_id == { r \in by_box : \A x \in by_box : r[2].id >= x[2].id }
    IN  { r[2].id : r \in by_id }

\* get_next_due_card: the join of study_srs and study_cards, the WHERE clause,
\* then ORDER BY due_at, box, id and LIMIT 1.  The result is {} for None and
\* {id} for the row of card id.
get_next_due_card(document_id) ==
    LET joined == { <<s, c>> \in study_srs \X study_cards :
                       /\ c.id = s.card_id
                       /\ document_id # NULL => c.document_id = document_id
                       /\ s.due_at <= today }
        by_due == { r \in joined : \A x \in joined : r[1].due_at <= x[1].due_at }
        by_box == { r \in by_due : \A x \in by_due : r[1].box <= x[1].box }
        by_id == { r \in by_box : \A x \in by_box : r[2].id <= x[2].id }
    IN  { r[2].id : r \in by_id }

\* `LIMIT 50`: the number of reviews the accuracy looks back over.
ACC_WINDOW == 50

\* Mutant: ORDER BY id ASC, the oldest rows instead of the newest.
recent_rows_oldest(rows, limit) ==
    { r \in rows : Cardinality({ x \in rows : x.id < r.id }) < limit }

\* ORDER BY id DESC LIMIT limit: the rows with fewer than `limit` newer rows.
recent_rows(rows, limit) ==
    { r \in rows : Cardinality({ x \in rows : x.id > r.id }) < limit }

\* int(round((correct_n / n) * 100)): the nearest integer, a half going to
\* the even neighbour.  The product is computed in binary64; for n <= 50 it
\* is the exact value except for 23/40*100 = 57.49999999999999, which rounds
\* down.
round_percent(correct_n, n) ==
    LET q == (100 * correct_n) \div n
        r == (100 * correct_n) % n
    IN  IF 2 * r < n THEN q
        ELSE IF 2 * r > n THEN q + 1
        ELSE IF correct_n = 23 /\ n = 40 THEN q
        ELSE IF q % 2 = 0 THEN q ELSE q + 1

\* The acc of study_stats(document_id).
study_stats_acc(document_id) ==
    LET scope == IF document_id = NULL THEN study_reviews
                 ELSE { r \in study_reviews :
                          \E c \in study_cards :
                              c.id = r.card_id /\ c.document_id = document_id }
        rows == recent_rows(scope, ACC_WINDOW)
        n == Cardinality(rows)
        correct_n == Cardinality({ r \in rows : r.correct = 1 })
    IN  [n |-> n, correct |-> correct_n, wrong |-> n - correct_n,
         rate |-> IF n # 0 THEN round_percent(correct_n, n) ELSE 0]

\* The results `ORDER BY RANDOM() LIMIT n` can give over the rows: every
\* arrangement of min(n, number of rows) different rows.
Samples(rows, n) ==
    LET m == Min(n, Cardinality(rows))
    IN  { f \in [1..m -> rows] : \A i, j \in 1..m : f[i] = f[j] => i = j }

\* "unique, keep order": the loop over out with `seen` and `uniq`.
RECURSIVE unique_keep_order(_, _, _)
unique_keep_order(out, seen, uniq) ==
    IF out = <<>> THEN uniq
    ELSE IF Head(out) \in seen
         THEN unique_keep_order(Tail(out), seen, uniq)
         ELSE unique_keep_order(Tail(out), seen \cup { Head(out) }, Append(uniq, Head(out)))

\* The lists get_random_distractors can return: answers of other cards of the
\* document first, topped up from all other cards, unique, cut to k.
get_random_distractors(exclude_card_id, document_id, k) ==
    LET others == { c \in study_cards : c.id # exclude_card_id }
        in_doc == { c \in others : c.document_id = document_id }
        firsts == IF document_id # NULL THEN Samples(in_doc, k) ELSE { <<>> }
        seconds(first) == IF Len(first) < k THEN Samples(others, k - Len(first))
                          ELSE { <<>> }
        answers(rows) == [ i \in 1..Len(rows) |-> rows[i].answer ]
        result(first, second) ==
            LET uniq == unique_keep_order(answers(first) \o answers(second), {}, <<>>)
            IN  SubSeq(uniq, 1, Min(k, Len(uniq)))
    IN  UNION { { result(first, second) : second \in seconds(first) } : first \in firsts }

\* ------------------------------------------------------------- environment
\* A day passes: date('now') moves on.
Tick ==
    /\ today < MaxDay
    /\ today' = today + 1
    /\ UNCHANGED <<db, preview, txn>>
    /\ Unlogged

CreateOuts ==
    ({ <<NULL, FALSE>>, <<next_card_id, TRUE>> }) \cup { <<c.id, FALSE>> : c \in study_cards }
Raises == { "none", "IntegrityError" }

\* The calls of a run, each guarded only by the room left for new rows.
Create(q, a, d, out, card_room) ==
    /\ create_study_card(q, a, d, NULL, out)
    /\ out[2] => next_card_id <= card_room
    /\ UNCHANGED <<today, preview, txn>>

Review(id, correct, source, raised, review_room) ==
    /\ review_card(id, correct, source, raised)
    /\ raised = "none" => next_review_id <= review_room
    /\ UNCHANGED <<today, preview, txn>>

CreateCard ==
    \E q \in QuestionInputs, a \in AnswerInputs, d \in DocInputs, out \in CreateOuts :
        Create(q, a, d, out, MaxCards) /\ Unlogged

UpdateCard ==
    \E id \in CardIds, q \in QuestionInputs, a \in AnswerInputs, d \in DocInputs :
        update_study_card(id, q, a, d) /\ UNCHANGED <<today, preview, txn>> /\ Unlogged

DeleteCard ==
    \E id \in CardIds : delete_study_card(id) /\ UNCHANGED <<today, preview, txn>> /\ Unlogged

ReviewCard ==
    \E id \in CardIds, correct \in BOOLEAN, raised \in Raises :
        Review(id, correct, "session", raised, MaxReviews) /\ Unlogged


\* ---------------------------------------------------------------- main.py
\* `> 3600` in _preview_cache_put: the time-to-live of a preview, in seconds.
TTL == 3600
\* `uniq[:350]`: the largest batch a preview keeps.
PREVIEW_CAP == 350

\* One extracted pair with the document, note and source the loops of
\* study_generate_preview attach to it.
Cand(q, a, d, n, src) ==
    [question |-> q, answer |-> a, document_id |-> d, note_id |-> n, source |-> src]

\* What the extractor yields over the notes and then over the documents.
CandidateInputs ==
    { <<>>,
      << Cand(<<SP, "X", SP>>, <<"A", SP>>, 1, NULL, "docs") >>,
      << Cand(<<SP, "X", SP>>, <<"A", SP>>, NULL, 1, "notes"),
         Cand(<<SP>>, <<"A", SP>>, NULL, 1, "notes"),
         Cand(<<"X">>, <<"A">>, NULL, 2, "notes"),
         Cand(<<"X">>, <<"A", SP>>, 1, NULL, "docs") >> }

\* Values of the `pick` form field: index texts, some of them no index.
PickInputs ==
    { {}, { <<"0">> }, { <<"1">> }, { <<SP, "0">>, <<"1">> },
      { <<"0">>, <<"-", "1">>, <<"2">>, <<"x">> } }

\* Tokens a request may name: the ones this run issues.
TokenInputs == 1..MaxTokens

\* The commit requests that can be in flight together.
Requests == 1..2

\* Candidates of the sources that are switched on (notes first, then docs).
from_sources(cands, do_notes, do_docs) ==
    SelectSeq(cands, LAMBDA c : \/ c.source = "notes" /\ do_notes
                                \/ c.source = "docs" /\ do_docs)

\* q2 = q.strip(); a2 = a.strip(); `if not q2 or not a2: continue`
clean(cands) ==
    LET trimmed == [ i \in 1..Len(cands) |->
                       [cands[i] EXCEPT !.question = strip(cands[i].question),
                                        !.answer = strip(cands[i].answer)] ]
    IN  SelectSeq(trimmed, LAMBDA c : ~(c.question = <<>> \/ c.answer = <<>>))

\* Mutant: the loop never finds a key in `seen`.
dedup_keeps_all(items) == items

\* "Dedup within preview itself": the loop appends an item to uniq when its
\* key is not in `seen`, which by then holds the keys of all items before it.
dedup(items) ==
    LET numbered == [ i \in 1..Len(items) |-> <<i, items[i]>> ]
        kept == SelectSeq(numbered,
                          LAMBDA p : \A j \in 1..(p[1] - 1) : Key(items[j]) # Key(p[2]))
    IN  [ i \in 1..Len(kept) |-> kept[i][2] ]

\* Mutant: the slice keeps one item too many.
cap_one_more(uniq) == SubSeq(uniq, 1, Min(Len(uniq), PREVIEW_CAP + 1))

\* items = uniq[:350]
cap(uniq) == SubSeq(uniq, 1, Min(Len(uniq), PREVIEW_CAP))

\* existing_study_card_keys(doc_ids): the (document_id, question, answer) of
\* the stored cards of these documents, None being the document of the
\* cards without one.
existing_study_card_keys(doc_ids) ==
    { Key(c) : c \in { x \in study_cards : x.document_id \in doc_ids } }

\* it["is_dup"] = key in existing
tag(items) ==
    LET doc_ids == { items[i].document_id : i \in 1..Len(items) }
        existing == existing_study_card_keys(doc_ids)
    IN  [ i \in 1..Len(items) |->
            [question |-> items[i].question, answer |-> items[i].answer,
             document_id |-> items[i].document_id, note_id |-> items[i].note_id,
             source |-> items[i].source, is_dup |-> Key(items[i]) \in existing] ]

\* The batch study_generate_preview builds from the extracted candidates.
preview_items(cands) == tag(cap(dedup(clean(cands))))

\* Mutant: the sweep also drops an entry that is exactly one hour old.
sweep_at_ttl(cache) ==
    [ k \in { t \in DOMAIN cache : ~(now - cache[t].created_at >= TTL) } |-> cache[k] ]

\* "cleanup old previews (1h)": drop the entries older than 3600 seconds.
sweep(cache) ==
    [ k \in { t \in DOMAIN cache : ~(now - cache[t].created_at > TTL) } |-> cache[k] ]

\* _preview_cache_put stores the batch under a new uuid4 token and sweeps.
preview_cache_put(items, token) ==
    /\ token = next_token
    /\ next_token' = next_token + 1
    /\ STUDY_PREVIEW_CACHE' =
         sweep([ k \in DOMAIN STUDY_PREVIEW_CACHE \cup { token } |->
                    IF k = token THEN [created_at |-> now, items |-> items]
                    ELSE STUDY_PREVIEW_CACHE[k] ])

\* Mutant: the entry is read and left in the cache.
preview_cache_pop_peek(token, popped) ==
    /\ popped = IF token \in DOMAIN STUDY_PREVIEW_CACHE
                THEN { STUDY_PREVIEW_CACHE[token].items } ELSE {}
    /\ STUDY_PREVIEW_CACHE' = STUDY_PREVIEW_CACHE

\* _preview_cache_pop: dict.pop is one atomic call.  popped is {} for None
\* and {items} for the batch of the entry.
preview_cache_pop(token, popped) ==
    /\ popped = IF token \in DOMAIN STUDY_PREVIEW_CACHE
                THEN { STUDY_PREVIEW_CACHE[token].items } ELSE {}
    /\ STUDY_PREVIEW_CACHE' =
         [ k \in DOMAIN STUDY_PREVIEW_CACHE \ { token } |-> STUDY_PREVIEW_CACHE[k] ]

\* study_generate_preview returns the token of the stored batch, or None when
\* no source is switched on.
study_generate_preview(cands, do_notes, do_docs, token) ==
    IF ~do_notes /\ ~do_docs
    THEN /\ token = NULL
         /\ UNCHANGED <<STUDY_PREVIEW_CACHE, next_token>>
    ELSE preview_cache_put(preview_items(from_sources(cands, do_notes, do_docs)), token)

\* int(v) of a form value: surrounding blanks, a sign, decimal digits; anything
\* else raises ValueError and the value is dropped.  The result is a set: {}
\* or the one integer.
DigitVal == [ c \in { "0", "1", "2", "3", "4", "5", "6", "7", "8", "9" } |->
                CASE c = "0" -> 0 [] c = "1" -> 1 [] c = "2" -> 2 [] c = "3" -> 3
                  [] c = "4" -> 4 [] c = "5" -> 5 [] c = "6" -> 6 [] c = "7" -> 7
                  [] c = "8" -> 8 [] c = "9" -> 9 ]

RECURSIVE digits_value(_, _)
digits_value(ds, acc) ==
    IF ds = <<>> THEN acc ELSE digits_value(Tail(ds), 10 * acc + DigitVal[Head(ds)])

int_of(v) ==
    LET t == strip(v)
        signed == t # <<>> /\ Head(t) \in { "-", "+" }
        ds == IF signed THEN Tail(t) ELSE t
    IN  IF ds = <<>> \/ \E i \in 1..Len(ds) : ds[i] \notin DOMAIN DigitVal
        THEN {}
        ELSE { IF signed /\ Head(t) = "-" THEN 0 - digits_value(ds, 0)
               ELSE digits_value(ds, 0) }

\* Mutant: the upper bound of the range test is one too large.
picked_indices_off_by_one(pick, items) ==
    { i \in UNION { int_of(v) : v \in pick } : 0 <= i /\ i <= Len(items) }

\* picked = sorted(set(i for i in picked if 0 <= i < len(items)))
picked_indices(pick, items) ==
    { i \in UNION { int_of(v) : v \in pick } : 0 <= i /\ i < Len(items) }

\* A request that has not started.  In its loop a request holds the batch
\* (items), the picked indices and the ones still to visit (todo); once it
\* has answered (pc = "done") what is left is the answer: the error or the
\* three counts created, skipped_dup and len(picked).
IdleRequest ==
    [pc |-> "idle", token |-> NULL, items |-> <<>>, picked |-> {}, todo |-> {},
     created |-> 0, skipped_dup |-> 0, raised |-> "none"]

\* The handler returns: its locals are gone, its answer stays.
answered(r) == [r EXCEPT !.pc = "done", !.items = <<>>, !.todo = {}]

\* study_generate_commit, up to the loop: pop the batch, answer "expired"
\* when there is none (`if not items`), else work out the picked indices.
study_generate_commit_pop(p, token, pick) ==
    \E popped \in { {} } \cup { { STUDY_PREVIEW_CACHE[t].items } : t \in DOMAIN STUDY_PREVIEW_CACHE } :
        /\ preview_cache_pop(token, popped)
        /\ LET items == IF popped = {} THEN <<>> ELSE CHOOSE x \in popped : TRUE
               picked == picked_indices(pick, items)
           IN  IF items = <<>>
               THEN /\ req' = [req EXCEPT ![p] =
                          [IdleRequest EXCEPT !.pc = "done", !.token = token,
                                              !.raised = "ExpiredOrUnknownToken"]]
                    /\ accepted' = accepted
               ELSE /\ req' = [req EXCEPT ![p] =
                          LET r == [IdleRequest EXCEPT !.pc = "loop", !.token = token,
                                                       !.items = items,
                                                       !.picked = picked, !.todo = picked]
                          IN  IF picked = {} THEN answered(r) ELSE r]
                    /\ accepted' = accepted \cup { token }
        /\ UNCHANGED <<db, now, next_token>>

\* The least index the loop has not visited yet.
next_index(p) == CHOOSE i \in req[p].todo : \A j \in req[p].todo : i <= j

\* Mutant: the loop does not look at is_dup.
skip_item_never(it) == FALSE

\* `if it.get("is_dup")`: the item is skipped and counted as a duplicate.
skip_item(it) == it.is_dup

\* Mutant: every card id that comes back is counted as created.
study_generate_commit_item_counts_all(p, out) ==
    /\ req[p].pc = "loop"
    /\ LET i == next_index(p)
           it == req[p].items[i + 1]
           rest == req[p].todo \ { i }
           visited(r) == IF rest = {} THEN answered(r) ELSE [r EXCEPT !.todo = rest]
       IN  IF skip_item(it)
           THEN /\ out = <<NULL, FALSE>>
                /\ req' = [req EXCEPT ![p] =
                              visited([req[p] EXCEPT !.skipped_dup = @ + 1])]
                /\ UNCHANGED db
           ELSE /\ create_study_card(it.question, it.answer, it.document_id, it.note_id, out)
                /\ req' = [req EXCEPT ![p] =
                              visited([req[p] EXCEPT
                                 !.created = IF out[1] # NULL THEN @ + 1 ELSE @])]
    /\ UNCHANGED <<STUDY_PREVIEW_CACHE, now, next_token, accepted>>

\* One pass of `for i in picked`: skip a tagged item, else create_study_card
\* in its own transaction and count what it returned (out).
study_generate_commit_item(p, out) ==
    /\ req[p].pc = "loop"
    /\ LET i == next_index(p)
           it == req[p].items[i + 1]
           rest == req[p].todo \ { i }
           visited(r) == IF rest = {} THEN answered(r) ELSE [r EXCEPT !.todo = rest]
       IN  IF skip_item(it)
           THEN /\ out = <<NULL, FALSE>>
                /\ req' = [req EXCEPT ![p] =
                              visited([req[p] EXCEPT !.skipped_dup = @ + 1])]
                /\ UNCHANGED db
           ELSE /\ create_study_card(it.question, it.answer, it.document_id, it.note_id, out)
                /\ req' = [req EXCEPT ![p] =
                              visited([req[p] EXCEPT
                                 !.created = IF out[2] THEN @ + 1 ELSE @,
                                 !.skipped_dup =
                                     IF out[1] # NULL /\ ~out[2] THEN @ + 1 ELSE @])]
    /\ UNCHANGED <<STUDY_PREVIEW_CACHE, now, next_token, accepted>>

\* init of the module: an empty cache, nothing in flight.
PreviewInit ==
    /\ STUDY_PREVIEW_CACHE = <<>>
    /\ now = 0
    /\ next_token = 1
    /\ req = [p \in Requests |-> IdleRequest]
    /\ accepted = {}
    /\ txn = [w \in Workers |-> IdleCall]

\* ------------------------------------------------------------ specification
\* The card store within one day.  init_db() on a new app.db: the three
\* tables are empty; the process starts on any day of the calendar.
Init ==
    /\ study_cards = {}
    /\ study_srs = {}
    /\ study_reviews = {}
    /\ next_card_id = 1
    /\ next_review_id = 1
    /\ today \in 0..MaxDay
    /\ ret = NoCall
    /\ call = NoArgs
    /\ PreviewInit

Next == CreateCard \/ UpdateCard \/ DeleteCard \/ ReviewCard

Spec == Init /\ [][Next]_vars

\* The same run with create_study_card's arguments and result on record.
LoggedCreateCard ==
    \E q \in QuestionInputs, a \in AnswerInputs, d \in DocInputs, out \in CreateOuts :
        /\ Create(q, a, d, out, MaxCards)
        /\ ret' = [NoCall EXCEPT !.op = "create", !.card_id = out[1],
                                 !.created_new = out[2]]
        /\ call' = <<q, a, d>>

LogInit == Init /\ today = 0

LogNext == LoggedCreateCard \/ UpdateCard \/ DeleteCard \/ ReviewCard

LogSpec == LogInit /\ [][LogNext]_vars

\* ------------------------------------------------------------- the scheduler
\* init_db() on an app.db that earlier runs have filled (CREATE TABLE IF NOT
\* EXISTS keeps the rows): the cards before card MaxCards were reviewed and
\* deleted, card MaxCards was created on day 0 and then reviewed correctly
\* `streak` times that day.
SchedCard == [id |-> MaxCards, document_id |-> 1, note_id |-> NULL,
              question |-> <<"X">>, answer |-> <<"A">>]

SchedInit ==
    \E streak \in 0..MaxStreak :
        /\ study_cards = { SchedCard }
        /\ study_srs =
             { [card_id |-> MaxCards, box |-> Min(5, 1 + streak),
                due_at |-> LEITNER_INTERVALS_DAYS(Min(5, 1 + streak)),
                last_review_at |-> IF streak = 0 THEN NULL ELSE 0,
                correct_streak |-> streak] }
        /\ study_reviews =
             { [id |-> i, card_id |-> MaxCards, correct |-> 1, source |-> "session"] :
                 i \in (MaxStreak - streak + 1)..MaxStreak }
        /\ next_card_id = MaxCards + 1
        /\ next_review_id = MaxStreak + 1
        /\ today = 0
        /\ ret = NoCall
        /\ call = NoArgs
        /\ PreviewInit

\* A deleted card, the card of the database and the next card.
SchedCardIds == (MaxCards - 1)..(MaxCards + 1)

SchedReview ==
    \E id \in SchedCardIds, correct \in BOOLEAN, source \in Sources, raised \in Raises :
        Review(id, correct, source, raised, MaxStreak + MaxReviews) /\ Unlogged

SchedUpdate ==
    \E id \in SchedCardIds, q \in QuestionInputs, a \in AnswerInputs, d \in DocInputs :
        update_study_card(id, q, a, d) /\ UNCHANGED <<today, preview, txn>> /\ Unlogged

SchedDelete ==
    \E id \in SchedCardIds : delete_study_card(id) /\ UNCHANGED <<today, preview, txn>> /\ Unlogged

SchedCreate ==
    \E q \in QuestionInputs, a \in AnswerInputs, d \in DocInputs, out \in CreateOuts :
        Create(q, a, d, out, MaxCards + 1) /\ Unlogged

SchedNext == SchedReview \/ SchedUpdate \/ SchedDelete \/ SchedCreate \/ Tick

SchedSpec == SchedInit /\ [][SchedNext]_vars

\* The same database within day 0, with review_card's arguments and outcome
\* on record.
SchedLoggedReview ==
    \E id \in SchedCardIds, correct \in BOOLEAN, source \in Sources, raised \in Raises :
        /\ Review(id, correct, source, raised, MaxStreak + MaxReviews)
        /\ ret' = [NoCall EXCEPT !.op = "review", !.raised = raised]
        /\ call' = <<id, correct, source>>

ReviewLogNext == SchedLoggedReview \/ SchedUpdate \/ SchedDelete \/ SchedCreate

ReviewLogSpec == SchedInit /\ [][ReviewLogNext]_vars

\* ------------------------------------------------- a database without SRS rows
\* init_db() on an app.db whose study_cards table was filled before study_srs
\* existed: CREATE TABLE IF NOT EXISTS adds study_srs empty, so card MaxCards
\* has no SRS row.  This is the state review_card's "ensure srs row exists"
\* branch is written for.
LegacyInit ==
    /\ study_cards = { SchedCard }
    /\ study_srs = {}
    /\ study_reviews = {}
    /\ next_card_id = MaxCards + 1
    /\ next_review_id = 1
    /\ today = 0
    /\ ret = NoCall
    /\ call = NoArgs
    /\ PreviewInit

\* review_card with its arguments and its outcome on record.
LoggedReview ==
    \E id \in SchedCardIds, correct \in BOOLEAN, source \in Sources, raised \in Raises :
        /\ Review(id, correct, source, raised, MaxReviews)
        /\ ret' = [NoCall EXCEPT !.op = "review", !.raised = raised]
        /\ call' = <<id, correct, source>>

LegacyNext == LoggedReview \/ SchedUpdate \/ SchedDelete \/ SchedCreate \/ Tick

LegacySpec == LegacyInit /\ [][LegacyNext]_vars


\* ------------------------------------------------- the preview/commit workflow
\* One request at a time, within one day, on the database of an earlier run:
\* card MaxCards was created on day 0 and reviewed correctly once.
PreviewDbInit ==
    /\ study_cards = { SchedCard }
    /\ study_srs = { [card_id |-> MaxCards, box |-> 2, due_at |-> 1,
                      last_review_at |-> 0, correct_streak |-> 1] }
    /\ study_reviews = { [id |-> 1, card_id |-> MaxCards, correct |-> 1,
                          source |-> "session"] }
    /\ next_card_id = MaxCards + 1
    /\ next_review_id = 2
    /\ today = 0
    /\ ret = NoCall
    /\ call = NoArgs
    /\ PreviewInit

\* The instants the clock is read at after start-up: one hour later, and later.
ClockInstants == { TTL } \cup { TTL + d : d \in 1..MaxLate }

\* No commit is between its pop and the end of its loop.
Quiet == \A p \in Requests : req[p].pc # "loop"

\* time.time() moves on.
Clock ==
    \E t \in ClockInstants :
        /\ Quiet
        /\ t > now
        /\ now' = t
        /\ UNCHANGED <<db, today, STUDY_PREVIEW_CACHE, next_token, req, accepted, txn>>
        /\ Unlogged

\* Mutant: the handler saves the first item of the batch on the spot.
Generate_saves_first ==
    \E cands \in CandidateInputs, do_notes, do_docs \in BOOLEAN, token \in { NULL, next_token } :
        /\ Quiet
        /\ study_generate_preview(cands, do_notes, do_docs, token)
        /\ token # NULL => next_token <= MaxTokens
        /\ LET items == preview_items(from_sources(cands, do_notes, do_docs))
           IN  IF token = NULL \/ items = <<>>
               THEN UNCHANGED db
               ELSE \E out \in { <<NULL, FALSE>>, <<next_card_id, TRUE>> }
                                  \cup { <<c.id, FALSE>> : c \in study_cards } :
                       /\ create_study_card(items[1].question, items[1].answer,
                                            items[1].document_id, items[1].note_id, out)
                       /\ out[2] => next_card_id <= MaxCards + 2
        /\ UNCHANGED <<today, now, req, accepted, txn>>
        /\ Unlogged

Generate ==
    \E cands \in CandidateInputs, do_notes, do_docs \in BOOLEAN, token \in { NULL, next_token } :
        /\ Quiet
        /\ study_generate_preview(cands, do_notes, do_docs, token)
        /\ token # NULL => next_token <= MaxTokens
        /\ UNCHANGED <<db, today, now, req, accepted, txn>>
        /\ Unlogged

\* A commit request arrives: the handler runs up to its loop.  The submitted
\* pick values are on record in call.
CommitPop(p) ==
    \E token \in TokenInputs, pick \in PickInputs :
        /\ req[p].pc \in { "idle", "done" }
        /\ study_generate_commit_pop(p, token, pick)
        /\ UNCHANGED <<today, txn>>
        /\ ret' = NoCall
        /\ call' = <<pick>>

\* The handler's loop visits its next picked item.
CommitItem(p, card_room) ==
    \E out \in CreateOuts :
        /\ study_generate_commit_item(p, out)
        /\ out[2] => next_card_id <= card_room
        /\ UNCHANGED <<today, txn>>
        /\ Unlogged

\* The direct calls of the card store next to the workflow.
PreviewCreate ==
    \E q \in QuestionInputs, a \in AnswerInputs, d \in DocInputs, out \in CreateOuts :
        Quiet /\ Create(q, a, d, out, MaxCards + 2) /\ Unlogged

PreviewDelete == Quiet /\ SchedDelete

PreviewNext ==
    \/ Clock
    \/ Generate
    \/ Quiet /\ CommitPop(1)
    \/ CommitItem(1, MaxCards + 2)
    \/ PreviewCreate
    \/ PreviewDelete

PreviewSpec == PreviewDbInit /\ [][PreviewNext]_vars

\* ------------------------------------------------------- a long review log
\* init_db() on the app.db of earlier runs, all of day 0: card MaxCards of
\* document 1 received the reviews with odd ids and card MaxCards + 1, of no
\* document, those with even ids; the first `good` reviews were correct and
\* the later ones were not.
StatsLogSizes == { 0, 1, 8, 40, 50, 51 }

StatsReviewIds(card_id, size) ==
    { i \in 1..size : (i % 2 = 1) <=> (card_id = MaxCards) }

StatsSrsRow(card_id, size, good) ==
    LET mine == StatsReviewIds(card_id, size)
        streak == IF \A i \in mine : i <= good THEN Cardinality(mine) ELSE 0
        box == Min(5, 1 + streak)
    IN  [card_id |-> card_id, box |-> box, due_at |-> LEITNER_INTERVALS_DAYS(box),
         last_review_at |-> IF mine = {} THEN NULL ELSE 0, correct_streak |-> streak]

StatsInit ==
    \E size \in StatsLogSizes : \E good \in { 0, 1, 23, size } :
        /\ good <= size
        /\ study_cards =
              { SchedCard,
                [id |-> MaxCards + 1, document_id |-> NULL, note_id |-> NULL,
                 question |-> <<"X">>, answer |-> <<"A">>] }
        /\ study_srs = { StatsSrsRow(c, size, good) : c \in { MaxCards, MaxCards + 1 } }
        /\ study_reviews =
              { [id |-> i, card_id |-> IF i % 2 = 1 THEN MaxCards ELSE MaxCards + 1,
                 correct |-> IF i <= good THEN 1 ELSE 0, source |-> "session"] :
                  i \in 1..size }
        /\ next_card_id = MaxCards + 2
        /\ next_review_id = size + 1
        /\ today = 0
        /\ ret = NoCall
        /\ call = NoArgs
        /\ PreviewInit

StatsReview ==
    \E id \in SchedCardIds, correct \in BOOLEAN, raised \in Raises :
        /\ review_card(id, correct, "quiz", raised)
        /\ raised = "none" =>
              \E size \in StatsLogSizes : next_review_id \in (size + 1)..(size + MaxReviews)
        /\ UNCHANGED <<today, preview, txn>>
        /\ Unlogged

StatsNext == StatsReview \/ SchedUpdate \/ SchedDelete

StatsSpec == StatsInit /\ [][StatsNext]_vars

\* ------------------------------------------------------ one large preview
\* The first preview request of a process, over `size` notes of one pair each
\* and one document of three pairs.  Every tenth note has a blank question,
\* the fifth, fifteenth, ... notes belong to document 1 and repeat each other,
\* every other note belongs to a document of its own.
GenSizes == (0..20) \cup { 434, 436, 437, 440 }

GenNotePair(i) ==
    Cand(IF i % 10 = 0 THEN <<SP>> ELSE <<SP, "X">>, <<"A", SP>>,
         IF i % 10 = 5 THEN 1 ELSE i + 1, i, "notes")

GenCandidates(size) ==
    [ i \in 1..size |-> GenNotePair(i) ] \o
    << Cand(<<"X">>, <<"A">>, 1, NULL, "docs"),
       Cand(<<"X">>, <<SP>>, 1, NULL, "docs"),
       Cand(<<"X", "X">>, <<"A">>, 1, NULL, "docs") >>

\* The request to come is on record in call from the start.
GenInit ==
    /\ study_cards = { SchedCard }
    /\ study_srs = { [card_id |-> MaxCards, box |-> 2, due_at |-> 1,
                      last_review_at |-> 0, correct_streak |-> 1] }
    /\ study_reviews = { [id |-> 1, card_id |-> MaxCards, correct |-> 1,
                          source |-> "session"] }
    /\ next_card_id = MaxCards + 1
    /\ next_review_id = 2
    /\ today = 0
    /\ ret = NoCall
    /\ call \in GenSizes \X BOOLEAN \X BOOLEAN
    /\ PreviewInit

GenGenerate ==
    \E token \in { NULL, next_token } :
        /\ ret = NoCall
        /\ study_generate_preview(GenCandidates(call[1]), call[2], call[3], token)
        /\ UNCHANGED <<db, today, now, req, accepted, txn>>
        /\ ret' = [NoCall EXCEPT !.op = "generate"]
        /\ call' = call

GenSpec == GenInit /\ [][GenGenerate]_vars

\* ------------------------------------------------------ concurrent commits
\* The handlers are plain `def` endpoints, which the server runs on worker
\* threads: two commit requests interleave at their pops (dict.pop, one call
\* under the interpreter lock) and at the transactions of their loops.
RaceNext ==
    \/ Generate
    \/ \E p \in Requests : CommitPop(p)
    \/ \E p \in Requests : CommitItem(p, MaxCards + 2)

RaceSpec == PreviewDbInit /\ [][RaceNext]_vars

\* ------------------------------------------- what leaves the schedule alone
\* The workflow and the direct calls with the operation on record in ret; an
\* update here moves a card between the documents and keeps its texts.
FrameCreate ==
    \E q \in QuestionInputs, a \in AnswerInputs, d \in DocInputs, out \in CreateOuts :
        /\ Quiet
        /\ Create(q, a, d, out, MaxCards + 1)
        /\ ret' = [NoCall EXCEPT !.op = "create", !.card_id = out[1],
                                 !.created_new = out[2]]
        /\ call' = NoArgs

FrameUpdate ==
    \E id \in SchedCardIds, d \in DocInputs :
        /\ Quiet
        /\ update_study_card(id, <<SP, "X", SP>>, <<"A", SP>>, d)
        /\ UNCHANGED <<today, preview, txn>>
        /\ ret' = [NoCall EXCEPT !.op = "update"]
        /\ call' = NoArgs

FrameGenerate ==
    \E cands \in CandidateInputs, do_notes, do_docs \in BOOLEAN, token \in { NULL, next_token } :
        /\ Quiet
        /\ study_generate_preview(cands, do_notes, do_docs, token)
        /\ token # NULL => next_token <= MaxTokens
        /\ UNCHANGED <<db, today, now, req, accepted, txn>>
        /\ ret' = [NoCall EXCEPT !.op = "generate"]
        /\ call' = NoArgs

FrameNext ==
    \/ FrameGenerate
    \/ Quiet /\ CommitPop(1)
    \/ CommitItem(1, MaxCards + 1)
    \/ FrameCreate
    \/ FrameUpdate

FrameSpec == PreviewDbInit /\ [][FrameNext]_vars

\* ------------------------------------------------------ overlapping reviews
\* study_review is a plain `def` endpoint: two requests run review_card on two
\* worker threads, each on its own connection, and another call can commit
\* between the SELECT of one call and its write.  The database is that of
\* SchedInit, all within day 0; a call starts only while the log has room for
\* the rows of the calls in flight and its own.
ReviewSelect(w) ==
    \E id \in SchedCardIds, correct \in BOOLEAN :
        /\ txn[w].pc # "read"
        /\ next_review_id + Cardinality({ v \in Workers : txn[v].pc = "read" })
              <= MaxStreak + MaxReviews + 1
        /\ review_card_select(w, id, correct, "session")
        /\ UNCHANGED <<today, preview>>
        /\ Unlogged

ReviewWrite(w) ==
    \E raised \in Raises :
        /\ txn[w].pc = "read" /\ txn[w].op = "review"
        /\ review_card_write(w, raised)
        /\ UNCHANGED <<today, preview>>
        /\ Unlogged

\* A card is created next to the reviews.
RaceCreate ==
    \E q \in QuestionInputs, a \in AnswerInputs, d \in DocInputs, out \in CreateOuts :
        /\ create_study_card(q, a, d, NULL, out)
        /\ out[2] => next_card_id <= MaxCards + 1
        /\ UNCHANGED <<today, preview, txn>>
        /\ Unlogged

ReviewRaceNext ==
    \/ \E w \in Workers : ReviewSelect(w)
    \/ \E w \in Workers : ReviewWrite(w)
    \/ RaceCreate

ReviewRaceSpec == SchedInit /\ [][ReviewRaceNext]_vars

\* ------------------------------------------------------ overlapping creates
\* Two requests run create_study_card on two worker threads, on an empty
\* store: the lookup of _find_existing_card_id and the INSERT are separate
\* connections, and the other call can commit between them.  A call starts
\* only while there is room for the cards of the calls in flight and its own.
CreateFind(w) ==
    \E q \in QuestionInputs, a \in AnswerInputs, d \in DocInputs :
        /\ txn[w].pc # "read"
        /\ next_card_id + Cardinality({ v \in Workers : txn[v].pc = "read" }) <= MaxCards
        /\ create_study_card_find(w, q, a, d, NULL)
        /\ UNCHANGED <<today, preview>>
        /\ Unlogged

CreateInsert(w) ==
    /\ txn[w].pc = "read" /\ txn[w].op = "create"
    /\ create_study_card_insert(w)
    /\ UNCHANGED <<today, preview>>
    /\ Unlogged

CreateRaceNext ==
    \/ \E w \in Workers : CreateFind(w)
    \/ \E w \in Workers : CreateInsert(w)

CreateRaceSpec == LogInit /\ [][CreateRaceNext]_vars

\* ------------------------------------------------------------------ claims
\* The trimmed (document_id, question, answer) of a recorded create call.
CallKey(args) == <<args[3], strip(args[1]), strip(args[2])>>
Ids(cards) == { c.id : c \in cards }
\* The step is a recorded create_study_card call.
CreateStep == ret'.op = "create" /\ call' # NoArgs

\* C1: in every reachable state no two stored cards share the same
\* (document_id, question, answer) triple, NULL document ids counting as equal
\* to each other and to no concrete id.
C1_UniqueTriples ==
    \A c1, c2 \in study_cards : Key(c1) = Key(c2) => c1.id = c2.id

\* C2: a create call that returns created_new = true adds exactly one card,
\* the one it returns; the call that follows it with the same trimmed
\* (document_id, question, answer) returns the same id with created_new =
\* false and adds no card.
C2_IdempotentCreate ==
    [][ /\ (CreateStep /\ ret'.created_new) =>
              /\ Cardinality(study_cards') = Cardinality(study_cards) + 1
              /\ \E c \in study_cards' \ study_cards :
                    c.id = ret'.card_id /\ Key(c) = CallKey(call')
        /\ (/\ ret.op = "create" /\ ret.created_new
            /\ CreateStep
            /\ CallKey(call') = CallKey(call)) =>
              /\ ret'.card_id = ret.card_id
              /\ ~ret'.created_new
              /\ study_cards' = study_cards
              /\ study_srs' = study_srs ]_vars

\* C2 witness: the second of two identical creates has returned the first's id.
C2_Witness ==
    /\ ret.op = "create" /\ ~ret.created_new /\ ret.card_id # NULL
    /\ \E c \in study_cards : c.id = ret.card_id /\ Key(c) = CallKey(call)

\* C3: a create with a concrete document_id and a create with document_id =
\* None and the same texts, one right after the other in either order, both
\* return created_new = true, with different ids, and both cards are stored.
C3_NullDocPartition ==
    [][ (/\ ret.op = "create" /\ ret.created_new
         /\ CreateStep
         /\ strip(call'[1]) = strip(call[1])
         /\ strip(call'[2]) = strip(call[2])
         /\ (call'[3] = NULL) # (call[3] = NULL)
         /\ ~\E c \in study_cards : Key(c) = CallKey(call')) =>
           /\ ret'.created_new
           /\ ret'.card_id # ret.card_id
           /\ \E c1, c2 \in study_cards' :
                 /\ c1.id = ret.card_id /\ Key(c1) = CallKey(call)
                 /\ c2.id = ret'.card_id /\ Key(c2) = CallKey(call') ]_vars

\* C3 witness: the second create has made a card next to its twin in the
\* other partition.
C3_Witness ==
    /\ ret.op = "create" /\ ret.created_new
    /\ \E c1, c2 \in study_cards :
          /\ c2.id = ret.card_id /\ Key(c2) = CallKey(call)
          /\ c1.id < c2.id
          /\ c1.question = c2.question /\ c1.answer = c2.answer
          /\ (c1.document_id = NULL) # (c2.document_id = NULL)

\* C4: a create whose question or answer is empty after trimming returns no
\* card id (None, False) and leaves the cards, the SRS rows and the review log
\* as they were.
C4_InvalidInput ==
    [][ (/\ CreateStep
         /\ (strip(call'[1]) = <<>> \/ strip(call'[2]) = <<>>)) =>
           /\ ret'.card_id = NULL
           /\ ~ret'.created_new
           /\ UNCHANGED db ]_vars

\* C4 witness: an invalid create was refused while cards and reviews exist.
C4_Witness ==
    /\ ret.op = "create" /\ ret.card_id = NULL
    /\ strip(call[1]) # <<>> /\ strip(call[2]) = <<>>
    /\ study_cards # {} /\ study_reviews # {}

\* The review rows a step appends, and the SRS rows of a card after the step.
NewReviews == study_reviews' \ study_reviews
SrsRowsAfter(card_id) == { s \in study_srs' : s.card_id = card_id }

\* C5: a correct review of a card whose SRS row has box b and streak s leaves
\* the row with box min(5, b+1), streak s+1 and due_at = today + interval of
\* the new box, the intervals being 0, 1, 3, 7, 14 days for the boxes 1..5.
C5_CorrectReview ==
    [][ \A r \in NewReviews : \A old \in SrsRows(r.card_id) :
          r.correct = 1 =>
             LET b == IF old.box + 1 > 5 THEN 5 ELSE old.box + 1
             IN  /\ Cardinality(SrsRowsAfter(r.card_id)) = 1
                 /\ \A s \in SrsRowsAfter(r.card_id) :
                       /\ s.box = b
                       /\ s.correct_streak = old.correct_streak + 1
                       /\ s.due_at = today + <<0, 1, 3, 7, 14>>[b] ]_vars

\* C5 witness: a card already in box 5 was reviewed correctly on a later day
\* and stays in box 5, due in 14 days.
C5_Witness ==
    /\ today > 0
    /\ \E s \in study_srs :
          /\ s.box = 5 /\ s.correct_streak > 4 /\ s.due_at = today + 14
          /\ \E r \in ReviewRows(s.card_id) : r.id > MaxStreak /\ r.correct = 1

\* C6: an incorrect review leaves the card, whatever its box and streak were,
\* with box 1, streak 0 and due_at = today.
C6_IncorrectReview ==
    [][ \A r \in NewReviews :
          r.correct = 0 =>
             /\ Cardinality(SrsRowsAfter(r.card_id)) = 1
             /\ \A s \in SrsRowsAfter(r.card_id) :
                   s.box = 1 /\ s.correct_streak = 0 /\ s.due_at = today ]_vars

\* C6 witness: a card with four or more correct reviews behind it was reviewed
\* incorrectly on a later day and is back in box 1.
C6_Witness ==
    /\ today > 0
    /\ \E s \in study_srs :
          /\ s.box = 1 /\ s.correct_streak = 0 /\ s.due_at = today
          /\ \E r \in ReviewRows(s.card_id) : r.id > MaxStreak /\ r.correct = 0
          /\ Cardinality({ r \in ReviewRows(s.card_id) : r.correct = 1 }) >= 4

\* C7: in every reachable state every SRS row has box in 1..5 and
\* correct_streak >= 0.
C7_BoxRange ==
    \A s \in study_srs : s.box \in 1..5 /\ s.correct_streak >= 0

\* C7 witness: one card has been reviewed correctly in box 5, next to a new
\* card in box 1.
C7_Witness ==
    \E s1, s2 \in study_srs :
        /\ s1.card_id # s2.card_id
        /\ s1.box = 5 /\ s1.correct_streak > MaxStreak
        /\ s2.box = 1

\* C8: every stored card has exactly one SRS row in every state (the card and
\* its row are inserted in one transaction), and the row of a card that a
\* create has just inserted has box 1, due_at = today, streak 0 and no
\* last_review_at.
C8_OneSrsRowPerCard ==
    [][ /\ \A c \in study_cards' :
              Cardinality({ s \in study_srs' : s.card_id = c.id }) = 1
        /\ \A c \in study_cards' :
              c.id \notin Ids(study_cards) =>
                 { s \in study_srs' : s.card_id = c.id } =
                    { [card_id |-> c.id, box |-> 1, due_at |-> today',
                       last_review_at |-> NULL, correct_streak |-> 0] } ]_vars

\* C8 witness: two cards, one just inserted and one already reviewed, each
\* with its row.
C8_Witness ==
    /\ Cardinality(study_cards) = 2
    /\ \A c \in study_cards : Cardinality(SrsRows(c.id)) = 1
    /\ \E s \in study_srs : s.last_review_at = NULL /\ s.due_at = today /\ today > 0
    /\ \E s \in study_srs : s.last_review_at # NULL

\* C9: a review of an existing card that has no SRS row does not raise; it
\* leaves exactly one SRS row for the card, with box 2, streak 1 and due_at =
\* today + 1 after a correct review and box 1, streak 0 and due_at = today
\* after an incorrect one, and appends one review row.
C9_ReviewWithoutSrsRow ==
    [][ \A c \in study_cards :
          (/\ SrsRows(c.id) = {}
           /\ ret'.op = "review" /\ call' # NoArgs /\ call'[1] = c.id) =>
             /\ ret'.raised = "none"
             /\ NewReviews =
                  { [id |-> next_review_id, card_id |-> c.id,
                     correct |-> IF call'[2] THEN 1 ELSE 0, source |-> call'[3]] }
             /\ study_reviews \subseteq study_reviews'
             /\ Cardinality(SrsRowsAfter(c.id)) = 1
             /\ \A s \in SrsRowsAfter(c.id) :
                   IF call'[2]
                   THEN s.box = 2 /\ s.correct_streak = 1 /\ s.due_at = today + 1
                   ELSE s.box = 1 /\ s.correct_streak = 0 /\ s.due_at = today ]_vars

\* C9 witness: the card that had no SRS row was reviewed correctly on a later
\* day and now has its one row in box 2.
C9_Witness ==
    /\ today > 0
    /\ ret.op = "review" /\ ret.raised = "none" /\ call = <<MaxCards, TRUE, "quiz">>
    /\ \E c \in study_cards : c.id = MaxCards
    /\ SrsRows(MaxCards) =
         { [card_id |-> MaxCards, box |-> 2, due_at |-> today + 1,
            last_review_at |-> today, correct_streak |-> 1] }
    /\ Cardinality(ReviewRows(MaxCards)) = 1

\* C10: after deleteCard(id) no card, SRS row or review row with that id is
\* left, and the rows of every other card are as they were.
C10_DeleteCascades ==
    [][ \A id \in Ids(study_cards) \ Ids(study_cards') :
          /\ study_cards' = { c \in study_cards : c.id # id }
          /\ study_srs' = { s \in study_srs : s.card_id # id }
          /\ study_reviews' = { r \in study_reviews : r.card_id # id }
          /\ SrsRowsAfter(id) = {}
          /\ \A r \in study_reviews' : r.card_id # id ]_vars

\* C10 witness: the reviewed card of the database is gone with all its rows,
\* and the card created after it still has its SRS row and its review.
C10_Witness ==
    /\ Ids(study_cards) = { MaxCards + 1 }
    /\ \A s \in study_srs : s.card_id = MaxCards + 1
    /\ study_reviews # {}
    /\ \A r \in study_reviews : r.card_id = MaxCards + 1
    /\ SrsRows(MaxCards + 1) # {}

\* C11: updateCard, a createCard call that returns an existing id,
\* generatePreview, and a commitPreview step that creates no card (the pop, or
\* the visit of an item that is skipped) leave every SRS row and every review
\* row as they were.
C11_ScheduleFrame ==
    [][ (\/ ret'.op = "update"
         \/ ret'.op = "generate"
         \/ ret'.op = "create" /\ ~ret'.created_new
         \/ \E p \in Requests :
               /\ req'[p] # req[p]
               /\ req'[p].created = req[p].created \/ req[p].pc # "loop") =>
           /\ study_srs' = study_srs
           /\ study_reviews' = study_reviews ]_vars

\* C11 witness: the reviewed card was moved to no document by an update after
\* a commit had skipped an item; it is still in box 2 with its review row.
C11_Witness ==
    /\ ret.op = "update"
    /\ \E c \in study_cards : c.id = MaxCards /\ c.document_id = NULL
    /\ SrsRows(MaxCards) = { [card_id |-> MaxCards, box |-> 2, due_at |-> 1,
                              last_review_at |-> 0, correct_streak |-> 1] }
    /\ ReviewRows(MaxCards) # {}
    /\ req[1].pc = "done" /\ req[1].skipped_dup > 0
    /\ next_token > 1

\* C12: the review log is append-only.  A reviewCard call on a stored card
\* appends exactly one review row, with a new id, the card id, the verdict and
\* the source of the call, and keeps every other row; a call that names no
\* stored card raises and appends nothing; no other call appends a row; a row
\* is never changed, and it is removed only together with its card.
C12_AppendOnlyLog ==
    [][ /\ (ret'.op = "review" /\ call' # NoArgs) =>
              /\ ret'.raised = "none" <=> call'[1] \in Ids(study_cards)
              /\ ret'.raised = "none" =>
                    /\ NewReviews =
                         { [id |-> next_review_id, card_id |-> call'[1],
                            correct |-> IF call'[2] THEN 1 ELSE 0,
                            source |-> call'[3]] }
                    /\ next_review_id \notin { r.id : r \in study_reviews }
                    /\ study_reviews \subseteq study_reviews'
              /\ ret'.raised # "none" => study_reviews' = study_reviews
        /\ ret'.op # "review" => NewReviews = {}
        /\ \A r \in study_reviews :
              \/ r \in study_reviews'
              \/ /\ r.card_id \in Ids(study_cards) \ Ids(study_cards')
                 /\ \A x \in study_reviews' : x.id # r.id ]_vars

\* C12 witness: a quiz review was appended behind the five rows the card
\* already had, all of which are still there.
C12_Witness ==
    /\ ret.op = "review" /\ ret.raised = "none" /\ call = <<MaxCards, FALSE, "quiz">>
    /\ [id |-> MaxStreak + 1, card_id |-> MaxCards, correct |-> 0, source |-> "quiz"]
          \in study_reviews
    /\ Cardinality(ReviewRows(MaxCards)) = MaxStreak + 1

\* Request p starts with this step: its handler pops and answers or enters
\* its loop.
CommitArrives(p) == req[p].pc \in { "idle", "done" } /\ req'[p] # req[p]

\* C13: once a commit with a token has been accepted, every later commit with
\* that token is answered ExpiredOrUnknownToken, never enters the loop and
\* changes no table.
C13_SingleUseToken ==
    [][ \A p \in Requests :
          (CommitArrives(p) /\ req'[p].token \in accepted) =>
             /\ req'[p].raised = "ExpiredOrUnknownToken"
             /\ req'[p].pc = "done"
             /\ req'[p].created = 0
             /\ UNCHANGED db ]_vars

\* C13 witness: the first commit of the token created a card, the second one
\* was refused.
C13_Witness ==
    /\ req[1].pc = "done" /\ req[1].raised = "ExpiredOrUnknownToken"
    /\ req[1].token \in accepted
    /\ next_card_id > MaxCards + 1
    /\ req[1].token \notin DOMAIN STUDY_PREVIEW_CACHE

\* C14: of two commit requests that name the same token, whatever the order
\* of their steps, at most one obtains the batch; the other is answered
\* ExpiredOrUnknownToken and creates nothing.
C14_OneCommitPerToken ==
    \A p, q \in Requests :
        (/\ p # q
         /\ req[p].pc # "idle" /\ req[q].pc # "idle"
         /\ req[p].token = req[q].token
         /\ req[p].raised = "none") =>
           /\ req[q].raised = "ExpiredOrUnknownToken"
           /\ req[q].pc = "done"
           /\ req[q].created = 0 /\ req[q].skipped_dup = 0

\* C14 witness: request 2 was refused while request 1, which holds the batch
\* of the same token, is still in its loop with a card created.
C14_Witness ==
    /\ req[1].pc = "loop" /\ req[1].created = 1 /\ req[1].todo # {}
    /\ req[2].pc = "done" /\ req[2].raised = "ExpiredOrUnknownToken"
    /\ req[2].token = req[1].token

\* C15: a commit with a token whose batch was stored more than TTL seconds
\* before the commit is answered ExpiredOrUnknownToken and changes no table.
C15_ExpiredTokenRefused ==
    [][ \A p \in Requests :
          (/\ CommitArrives(p)
           /\ req'[p].token \in DOMAIN STUDY_PREVIEW_CACHE
           /\ now - STUDY_PREVIEW_CACHE[req'[p].token].created_at > TTL) =>
             /\ req'[p].raised = "ExpiredOrUnknownToken"
             /\ req'[p].pc = "done"
             /\ UNCHANGED db ]_vars

\* The index each pick text of PickInputs denotes, if it denotes one.
Denoted(v) ==
    CASE v = <<"0">> -> { 0 }
      [] v = <<SP, "0">> -> { 0 }
      [] v = <<"1">> -> { 1 }
      [] v = <<"2">> -> { 2 }
      [] v = <<"-", "1">> -> { 0 - 1 }
      [] OTHER -> {}

\* C16: a commit works on exactly the submitted indices that are in range of
\* the batch; each step of its loop visits one of them once; visiting an item
\* tagged is_dup changes no table and counts one duplicate-skip, even when no
\* card has the item's triple any more; visiting an untagged item adds at most
\* one card, with the item's triple; and no other step of a commit adds a card.
C16_NewOnlyCommit ==
    [][ \A p \in Requests :
          /\ (CommitArrives(p) /\ req'[p].raised = "none") =>
                /\ req'[p].picked =
                     { i \in 0..(Len(STUDY_PREVIEW_CACHE[req'[p].token].items) - 1) :
                          \E v \in call'[1] : i \in Denoted(v) }
                /\ UNCHANGED db
          /\ (req[p].pc = "loop" /\ req'[p] # req[p]) =>
                \E i \in req[p].picked :
                    LET it == req[p].items[i + 1]
                    IN  /\ i >= 0 /\ i < Len(req[p].items)
                        /\ req[p].todo \ req'[p].todo = { i }
                        /\ it.is_dup =>
                              /\ UNCHANGED db
                              /\ req'[p].skipped_dup = req[p].skipped_dup + 1
                              /\ req'[p].created = req[p].created
                        /\ study_cards \subseteq study_cards'
                        /\ Cardinality(study_cards' \ study_cards) =
                              req'[p].created - req[p].created
                        /\ \A c \in study_cards' \ study_cards :
                              /\ ~it.is_dup
                              /\ Key(c) = Key(it)
                              /\ Cardinality(study_cards' \ study_cards) = 1 ]_vars

\* C16 witness: both items were picked; the first was created, the second,
\* tagged is_dup at generate time, was skipped although its card had been
\* deleted before the commit.
C16_Witness ==
    /\ req[1].pc = "done" /\ req[1].raised = "none"
    /\ req[1].picked = { 0, 1 }
    /\ req[1].created = 1 /\ req[1].skipped_dup = 1
    /\ study_cards # {}
    /\ \A c \in study_cards : c.document_id = NULL /\ c.id > MaxCards

\* C17: for every stored card, document_id and k, every list pickDistractors
\* can return for that card has at most k entries, no entry twice, and no
\* entry equal to the card's own answer.
C17_Distractors ==
    \A c \in study_cards, d \in DocInputs, k \in 0..MaxK :
        \A out \in get_random_distractors(c.id, d, k) :
            /\ Len(out) <= k
            /\ \A i, j \in 1..Len(out) : out[i] = out[j] => i = j
            /\ \A i \in 1..Len(out) : out[i] # c.answer

\* The stored cards getNextDueCard(d) may return: in scope (any card when d is
\* None, else the cards of document d) and with an SRS row due today or before.
DueInScope(d) ==
    { c \in study_cards :
         /\ d # NULL => c.document_id = d
         /\ \E s \in SrsRows(c.id) : s.due_at <= today }

\* Card c1 comes before card c2 in the review order (due date, box, id).
ComesBefore(c1, c2) ==
    \E s1 \in SrsRows(c1.id), s2 \in SrsRows(c2.id) :
        \/ s1.due_at < s2.due_at
        \/ s1.due_at = s2.due_at /\ s1.box < s2.box
        \/ s1.due_at = s2.due_at /\ s1.box = s2.box /\ c1.id < c2.id

\* C18: getNextDueCard(d) returns none exactly when no card in scope is due;
\* otherwise it returns one card, which is in scope and due and comes before
\* every other due card in scope in the order (due date, box, id); a card
\* whose due date is after today is never returned.
C18_NextDueCard ==
    \A d \in DocInputs :
        LET r == get_next_due_card(d)
        IN  /\ r = {} <=> DueInScope(d) = {}
            /\ Cardinality(r) <= 1
            /\ \A id \in r :
                  \E c \in DueInScope(d) :
                      /\ c.id = id
                      /\ \A c2 \in DueInScope(d) \ { c } : ComesBefore(c, c2)
            /\ \A s \in study_srs : s.due_at > today => s.card_id \notin r

\* C18 witness: on day 1 the reviewed card (box 2, due that day) and a card
\* created that day without a document (box 1) are both due; over all cards
\* the new card comes first through its box although its id is larger, and
\* within document 1 the reviewed card is returned.
C18_Witness ==
    /\ today = 1
    /\ \E s \in SrsRows(MaxCards) : s.box = 2 /\ s.due_at = 1
    /\ \E s \in SrsRows(MaxCards + 1) : s.box = 1 /\ s.due_at = 1
    /\ \E c \in study_cards : c.id = MaxCards + 1 /\ c.document_id = NULL
    /\ get_next_due_card(NULL) = { MaxCards + 1 }
    /\ get_next_due_card(1) = { MaxCards }

\* The review rows stats(d) looks at: all of them when d is None, else those
\* of the cards of document d.
ReviewsInScope(d) ==
    IF d = NULL THEN study_reviews
    ELSE { r \in study_reviews : \E c \in CardRows(r.card_id) : c.document_id = d }

\* C19: acc of stats(d) is taken over the min(50, rows in scope) most recent
\* review rows in scope: n is their number, correct the number of correct ones
\* among them, wrong = n - correct, rate an integer nearest to 100*correct/n
\* when n > 0, and acc = {n:0, correct:0, wrong:0, rate:0} when there are none.
C19_Accuracy ==
    \A d \in DocInputs :
        LET acc == study_stats_acc(d)
            scope == ReviewsInScope(d)
            size == Cardinality(scope)
        IN  /\ acc.n = IF size < 50 THEN size ELSE 50
            /\ \E t \in { 0 } \cup { r.id : r \in scope } :
                  LET window == { r \in scope : r.id > t }
                  IN  /\ Cardinality(window) = acc.n
                      /\ acc.correct = Cardinality({ r \in window : r.correct = 1 })
            /\ acc.wrong = acc.n - acc.correct
            /\ acc.n = 0 => acc.rate = 0
            /\ acc.n > 0 =>
                  /\ 2 * (100 * acc.correct - acc.rate * acc.n) <= acc.n
                  /\ 2 * (acc.rate * acc.n - 100 * acc.correct) <= acc.n
            /\ scope = {} => acc = [n |-> 0, correct |-> 0, wrong |-> 0, rate |-> 0]

\* C19 witness: the log holds 52 reviews; the correct review with id 1 is too
\* old to count, and one of the 50 rows that count is correct.
C19_Witness ==
    /\ Cardinality(study_reviews) = 52
    /\ study_stats_acc(NULL) = [n |-> 50, correct |-> 1, wrong |-> 49, rate |-> 2]
    /\ [id |-> 1, card_id |-> MaxCards, correct |-> 1, source |-> "session"] \in study_reviews

\* C20: the batch a generatePreview stores has at most 350 items, none with an
\* empty question or answer and no two with the same (document_id, question,
\* answer); its items are, in order, the first occurrences of the triples of
\* the extracted candidates that are non-empty after trimming, from the first
\* of them on without a gap (so the items left out come after all items kept).
C20_PreviewBatch ==
    (ret.op = "generate" /\ call # NoArgs) =>
        \A t \in DOMAIN STUDY_PREVIEW_CACHE :
            LET items == STUDY_PREVIEW_CACHE[t].items
                cands == SelectSeq(GenCandidates(call[1]),
                                   LAMBDA c : IF c.source = "notes" THEN call[2] ELSE call[3])
                keys == [ i \in 1..Len(cands) |->
                            <<cands[i].document_id, strip(cands[i].question),
                              strip(cands[i].answer)>> ]
                valid == { i \in 1..Len(cands) : keys[i][2] # <<>> /\ keys[i][3] # <<>> }
                firsts == { i \in valid : \A j \in valid : j < i => keys[j] # keys[i] }
                kept == { i \in firsts : Cardinality({ j \in firsts : j < i }) < Len(items) }
            IN  /\ Len(items) <= 350
                /\ Len(items) = IF Cardinality(firsts) < 350 THEN Cardinality(firsts) ELSE 350
                /\ \A i \in 1..Len(items) :
                      items[i].question # <<>> /\ items[i].answer # <<>>
                /\ \A i, j \in 1..Len(items) : Key(items[i]) = Key(items[j]) => i = j
                /\ \A i \in kept :
                      LET it == items[Cardinality({ j \in firsts : j < i }) + 1]
                      IN  /\ Key(it) = keys[i]
                          /\ it.note_id = cands[i].note_id
                          /\ it.source = cands[i].source

\* C20 witness: 437 notes and the document give 352 different non-empty
\* triples, of which the stored batch holds the first 350.
C20_Witness ==
    /\ ret.op = "generate" /\ call = <<437, TRUE, TRUE>>
    /\ Len(STUDY_PREVIEW_CACHE[1].items) = 350
    /\ STUDY_PREVIEW_CACHE[1].items[350].note_id = 436

\* The step is the pop of a commit request that names token t (the pick values
\* of a commit are on record in call).
CommitNames(t) ==
    /\ call' # NoArgs
    /\ \E p \in Requests :
          req[p].pc \in { "idle", "done" } /\ req'[p].pc # "idle" /\ req'[p].token = t

\* C21: a generatePreview call that stores a batch sweeps the cache: right
\* after it no entry is older than TTL seconds, every entry that was there
\* before and is not older than TTL is still there unchanged, and the new
\* token is there with the time of the call; a step of any other operation
\* removes no entry except the one a commit names.
C21_SweepOnGenerate ==
    [][ /\ next_token' # next_token =>
              /\ \A t \in DOMAIN STUDY_PREVIEW_CACHE' :
                    now' - STUDY_PREVIEW_CACHE'[t].created_at <= 3600
              /\ \A t \in DOMAIN STUDY_PREVIEW_CACHE :
                    now - STUDY_PREVIEW_CACHE[t].created_at <= 3600 =>
                       /\ t \in DOMAIN STUDY_PREVIEW_CACHE'
                       /\ STUDY_PREVIEW_CACHE'[t] = STUDY_PREVIEW_CACHE[t]
              /\ next_token \in DOMAIN STUDY_PREVIEW_CACHE'
              /\ STUDY_PREVIEW_CACHE'[next_token].created_at = now
        /\ next_token' = next_token =>
              /\ \A t \in DOMAIN STUDY_PREVIEW_CACHE :
                    \/ /\ t \in DOMAIN STUDY_PREVIEW_CACHE'
                       /\ STUDY_PREVIEW_CACHE'[t] = STUDY_PREVIEW_CACHE[t]
                    \/ CommitNames(t)
              /\ DOMAIN STUDY_PREVIEW_CACHE' \subseteq DOMAIN STUDY_PREVIEW_CACHE ]_vars

\* C21 witness: the second generate came more than an hour after the first;
\* the first batch, which no commit ever asked for, is gone and the second is
\* stored.
C21_Witness ==
    /\ now > TTL
    /\ next_token = 3
    /\ \A p \in Requests : req[p].pc = "idle"
    /\ DOMAIN STUDY_PREVIEW_CACHE = { 2 }
    /\ STUDY_PREVIEW_CACHE[2].created_at = now

\* Worker w finishes a review_card call with this step, without raising.
ReviewLands(w) ==
    /\ txn[w].pc = "read" /\ txn[w].op = "review"
    /\ txn'[w].pc = "done" /\ txn'[w].out = <<"none">>

\* C22: when a reviewCard call writes, the card's row becomes the transition
\* of the call's verdict applied to the box and streak the call read (box 1,
\* streak 0 when it read no row), whatever another call has written since the
\* read, with due_at = today + interval of the new box; and the call appends
\* its own review row and keeps the rows of the other calls.
C22_LastWriteWins ==
    [][ \A w \in Workers :
          ReviewLands(w) =>
             LET id == txn[w].args[1]
                 good == txn[w].args[2]
                 b == IF txn[w].read = {} THEN 1 ELSE (CHOOSE x \in txn[w].read : TRUE)[1]
                 k == IF txn[w].read = {} THEN 0 ELSE (CHOOSE x \in txn[w].read : TRUE)[2]
                 nb == IF good THEN (IF b + 1 > 5 THEN 5 ELSE b + 1) ELSE 1
             IN  /\ Cardinality(SrsRowsAfter(id)) = 1
                 /\ \A s \in SrsRowsAfter(id) :
                       /\ s.box = nb
                       /\ s.correct_streak = IF good THEN k + 1 ELSE 0
                       /\ s.due_at = today + <<0, 1, 3, 7, 14>>[nb]
                 /\ NewReviews = { [id |-> next_review_id, card_id |-> id,
                                    correct |-> IF good THEN 1 ELSE 0,
                                    source |-> txn[w].args[3]] }
                 /\ study_reviews \subseteq study_reviews' ]_vars

\* C22 witness: the card had one correct review and was in box 2; two correct
\* reviews that both read box 2 have been written, both are in the log, and
\* the card is in box 3 with streak 2, not in box 4.
C22_Witness ==
    /\ \A w \in Workers :
          /\ txn[w].pc = "done" /\ txn[w].op = "review" /\ txn[w].out = <<"none">>
          /\ txn[w].args = <<MaxCards, TRUE, "session">>
          /\ txn[w].read = { <<2, 1>> }
    /\ Cardinality({ r \in ReviewRows(MaxCards) : r.id <= MaxStreak }) = 1
    /\ Cardinality({ r \in ReviewRows(MaxCards) : r.id > MaxStreak /\ r.correct = 1 }) = 2
    /\ \E s \in SrsRows(MaxCards) : s.box = 3 /\ s.correct_streak = 2 /\ s.due_at = 3

\* The step is a generatePreview call that stores a batch.
GenerateStep == next_token' # next_token

\* C23: a generatePreview call leaves the cards, the SRS rows, the review log
\* and their id counters as they were; all it changes is the preview cache,
\* which gains the one new token and loses only entries older than TTL
\* seconds.  A step that adds a card is a visit of a commit's loop, which
\* counts it as created, or a direct createCard call, which touches neither
\* the cache nor a request.
C23_GenerateFrame ==
    [][ /\ GenerateStep =>
              /\ UNCHANGED <<study_cards, study_srs, study_reviews,
                             next_card_id, next_review_id, today, req, accepted>>
              /\ DOMAIN STUDY_PREVIEW_CACHE' \ DOMAIN STUDY_PREVIEW_CACHE = { next_token }
              /\ \A t \in DOMAIN STUDY_PREVIEW_CACHE :
                    IF t \in DOMAIN STUDY_PREVIEW_CACHE'
                    THEN STUDY_PREVIEW_CACHE'[t] = STUDY_PREVIEW_CACHE[t]
                    ELSE now - STUDY_PREVIEW_CACHE[t].created_at > 3600
        /\ study_cards' \ study_cards # {} =>
              /\ STUDY_PREVIEW_CACHE' = STUDY_PREVIEW_CACHE
              /\ next_token' = next_token
              /\ \/ req' = req
                 \/ \E p \in Requests :
                       /\ req[p].pc = "loop"
                       /\ req'[p].created = req[p].created + 1
                       /\ \A c \in study_cards' \ study_cards :
                             \E i \in req[p].todo : Key(c) = Key(req[p].items[i + 1]) ]_vars

\* C23 witness: a second batch with a new item has been stored an hour after
\* the first, the first batch was swept, and the tables are those of the start.
C23_Witness ==
    /\ next_token = 3
    /\ DOMAIN STUDY_PREVIEW_CACHE = { 2 }
    /\ \E i \in 1..Len(STUDY_PREVIEW_CACHE[2].items) : ~STUDY_PREVIEW_CACHE[2].items[i].is_dup
    /\ STUDY_PREVIEW_CACHE[2].created_at > TTL
    /\ accepted = {}
    /\ \A p \in Requests : req[p].pc = "idle"
    /\ study_cards = { SchedCard }
    /\ next_card_id = MaxCards + 1
    /\ Cardinality(study_srs) = 1 /\ Cardinality(study_reviews) = 1

\* C24: when two createCard calls with the same trimmed (document_id,
\* question, answer) have both returned, whatever the order of their lookups
\* and inserts, one card with that triple is stored and both calls have
\* returned its id.
C24_ConcurrentCreate ==
    \A v, w \in Workers :
        (/\ v # w
         /\ txn[v].pc = "done" /\ txn[v].op = "create" /\ txn[v].out[1] # NULL
         /\ txn[w].pc = "done" /\ txn[w].op = "create"
         /\ txn[w].args = txn[v].args) =>
           /\ Cardinality({ c \in study_cards :
                              Key(c) = <<txn[v].args[3], txn[v].args[1], txn[v].args[2]>> }) = 1
           /\ txn[v].out[1] = txn[w].out[1]
           /\ \E c \in study_cards : c.id = txn[v].out[1]

\* C25: when the loop of a commit visits an item that was tagged is_dup =
\* false and a card with the item's triple is stored by now, the visit adds
\* no card and changes no table, counts the item as a duplicate-skip and not
\* as created, and the store still holds one card with that triple.
C25_DuplicateSinceGenerate ==
    [][ \A p \in Requests :
          (req[p].pc = "loop" /\ req'[p] # req[p]) =>
             \A i \in req[p].todo \ req'[p].todo :
                LET it == req[p].items[i + 1]
                    twins == { c \in study_cards : Key(c) = Key(it) }
                IN  (~it.is_dup /\ twins # {}) =>
                       /\ study_cards' = study_cards
                       /\ study_srs' = study_srs
                       /\ study_reviews' = study_reviews
                       /\ req'[p].skipped_dup = req[p].skipped_dup + 1
                       /\ req'[p].created = req[p].created
                       /\ Cardinality({ c \in study_cards' : Key(c) = Key(it) }) = 1 ]_vars

\* C25 witness: the commit has visited item 0, which was new when the batch
\* was generated; a card with its triple was created in between, so the item
\* was counted as a duplicate and the store holds that one card.
C25_Witness ==
    /\ req[1].pc = "loop" /\ req[1].picked = { 0, 1 } /\ req[1].todo = { 1 }
    /\ req[1].skipped_dup = 1 /\ req[1].created = 0
    /\ ~req[1].items[1].is_dup
    /\ Cardinality({ c \in study_cards : Key(c) = Key(req[1].items[1]) }) = 1

\* C26: in every reachable state every stored card has a question and an
\* answer that are not empty and have no blank at either end.
C26_CardTextValid ==
    \A c \in study_cards :
        /\ c.question # <<>> /\ c.answer # <<>>
        /\ Head(c.question) # SP /\ c.question[Len(c.question)] # SP
        /\ Head(c.answer) # SP /\ c.answer[Len(c.answer)] # SP

\* The part of C26 that holds: every stored text is trimmed.
CardTextTrimmed ==
    \A c \in study_cards : strip(c.question) = c.question /\ strip(c.answer) = c.answer

\* The four most recent review rows of a card, when it has that many.
LastFour(card_id) ==
    { r \in ReviewRows(card_id) :
         Cardinality({ x \in ReviewRows(card_id) : x.id > r.id }) < 4 }

LastFourCorrect(card_id) ==
    /\ Cardinality(ReviewRows(card_id)) >= 4
    /\ \A r \in LastFour(card_id) : r.correct = 1

\* C27 as stated: each SRS row has box = min(5, 1 + correct_streak), and the
\* card is in box 5 exactly when its last four (or more) reviews were all
\* correct, also when the calls overlap.
C27_BoxFromReviews ==
    \A s \in study_srs :
        /\ s.box = (IF 1 + s.correct_streak > 5 THEN 5 ELSE 1 + s.correct_streak)
        /\ s.box = 5 <=> LastFourCorrect(s.card_id)

\* C27 as amended: each SRS row has box = min(5, 1 + correct_streak) in every
\* reachable state, also when the calls overlap; a card in box 5 has a streak
\* of at least 4 and a correct review as its most recent one.
C27_BoxFromStreak ==
    \A s \in study_srs :
        /\ s.box = (IF 1 + s.correct_streak > 5 THEN 5 ELSE 1 + s.correct_streak)
        /\ s.box = 5 =>
              /\ s.correct_streak >= 4
              /\ \E r \in ReviewRows(s.card_id) :
                    /\ r.correct = 1
                    /\ \A x \in ReviewRows(s.card_id) : x.id <= r.id

\* C27 witness: the card was in box 3 after two correct reviews; two more
\* correct reviews overlapped, both read box 3, and the card is in box 4 with
\* streak 3 although its last four reviews are all correct.
C27_Witness ==
    /\ \A w \in Workers :
          /\ txn[w].pc = "done" /\ txn[w].out = <<"none">>
          /\ txn[w].args = <<MaxCards, TRUE, "session">>
          /\ txn[w].read = { <<3, 2>> }
    /\ LastFourCorrect(MaxCards)
    /\ \E s \in SrsRows(MaxCards) : s.box = 4 /\ s.correct_streak = 3

\* C28: before and after every step every SRS row and every review row names
\* a stored card; a reviewCard call with the id of a card that was deleted or
\* never existed raises and leaves the cards, the SRS rows and the review log
\* as they were.
C28_ReferentialIntegrity ==
    [][ /\ \A s \in study_srs : \E c \in study_cards : c.id = s.card_id
        /\ \A s \in study_srs' : \E c \in study_cards' : c.id = s.card_id
        /\ \A r \in study_reviews : \E c \in study_cards : c.id = r.card_id
        /\ \A r \in study_reviews' : \E c \in study_cards' : c.id = r.card_id
        /\ (/\ ret'.op = "review" /\ call' # NoArgs
            /\ \A c \in study_cards : c.id # call'[1]) =>
              /\ ret'.raised # "none"
              /\ study_cards' = study_cards
              /\ study_srs' = study_srs
              /\ study_reviews' = study_reviews ]_vars

\* C28 witness: the reviewed card of the database was deleted and then
\* reviewed again; the call raised, and the only rows left are those of the
\* card created after it.
C28_Witness ==
    /\ ret.op = "review" /\ ret.raised = "IntegrityError" /\ call[1] = MaxCards
    /\ Ids(study_cards) = { MaxCards + 1 }
    /\ { s.card_id : s \in study_srs } = { MaxCards + 1 }
    /\ \A r \in study_reviews : r.card_id = MaxCards + 1

\* C29: an accepted commit starts with created = skipped_dup = 0 and with
\* selected = the distinct submitted indices in range of the batch; between
\* its pop and its answer only its own loop runs, and each visit handles one
\* selected index, adds created' - created cards (0 or 1) to the store and
\* removes none; so when it answers, created + skipped_dup = selected and the
\* store has grown by exactly created.
C29_CommitCounts ==
    [][ \A p \in Requests :
          /\ (CommitArrives(p) /\ req'[p].raised = "none") =>
                /\ req'[p].created = 0 /\ req'[p].skipped_dup = 0
                /\ req'[p].picked =
                     { i \in 0..(Len(STUDY_PREVIEW_CACHE[req'[p].token].items) - 1) :
                          \E v \in call'[1] : i \in Denoted(v) }
                /\ req'[p].pc = "loop" => req'[p].todo = req'[p].picked
                /\ study_cards' = study_cards
          /\ req[p].pc = "loop" =>
                /\ Cardinality(req[p].todo \ req'[p].todo) = 1
                /\ req'[p].pc = "loop" => req'[p].todo \subseteq req[p].todo
                /\ req'[p].picked = req[p].picked
                /\ req'[p].created + req'[p].skipped_dup =
                      req[p].created + req[p].skipped_dup + 1
                /\ req'[p].created - req[p].created \in { 0, 1 }
                /\ study_cards \subseteq study_cards'
                /\ Cardinality(study_cards') =
                      Cardinality(study_cards) + req'[p].created - req[p].created
                /\ req[p].created + req[p].skipped_dup + Cardinality(req[p].todo) =
                      Cardinality(req[p].picked)
          /\ (req'[p].pc = "done" /\ req'[p].raised = "none") =>
                req'[p].created + req'[p].skipped_dup = Cardinality(req'[p].picked) ]_vars

\* C29 witness: of two selected items one was created and one skipped, and
\* the store holds the one card more that this run has inserted.
C29_Witness ==
    /\ req[1].pc = "done" /\ req[1].raised = "none"
    /\ Cardinality(req[1].picked) = 2
    /\ req[1].created = 1 /\ req[1].skipped_dup = 1
    /\ Cardinality(study_cards) = 2
    /\ next_card_id = MaxCards + 2

\* C30: a commit is answered ExpiredOrUnknownToken only when its token is not
\* in the preview cache; a commit whose token is in the cache is accepted,
\* whatever its batch holds (also no item at all) and whatever is picked.
C30_ExpiredOnlyWhenAbsent ==
    [][ \A p \in Requests :
          CommitArrives(p) =>
             (req'[p].raised = "ExpiredOrUnknownToken"
                 <=> req'[p].token \notin DOMAIN STUDY_PREVIEW_CACHE) ]_vars

\* The part of C30 that holds: a commit whose token is in the cache with a
\* batch of at least one item is accepted, whatever is picked, and a commit
\* whose token is not in the cache is refused.
CommitOfStoredItems ==
    [][ \A p \in Requests :
          CommitArrives(p) =>
             /\ req'[p].token \notin DOMAIN STUDY_PREVIEW_CACHE =>
                   req'[p].raised = "ExpiredOrUnknownToken"
             /\ (/\ req'[p].token \in DOMAIN STUDY_PREVIEW_CACHE
                 /\ STUDY_PREVIEW_CACHE[req'[p].token].items # <<>>) =>
                   req'[p].raised = "none" ]_vars

====
